---- MODULE Spec2Model ----
(***************************************************************************)
(* A model of cabot_alert_slack/models.py: SlackAlert.send_alert and the   *)
(* helpers it calls, run against a Slack server whose answers are part of  *)
(* the state.  One dispatch is one call of send_alert; every HTTP request  *)
(* of the dispatch is one step.                                            *)
(***************************************************************************)
EXTENDS Integers, Sequences, FiniteSets, TLC

(* ------------------------------ bounds --------------------------------- *)
\* most recipients in `users`
MaxUsers == 2
\* most failing checks of the service
MaxChecks == 6
\* most pages of the membership listing
MaxPages == 3
\* the request counter of one membership listing saturates here
MaxRequests == 6
\* calls of send_alert made by the host in one behaviour
MaxDispatches == 2
\* characters after the first of a value entered in the override field
MaxTail == 2

(* --------------------------- program constants ------------------------- *)
\* Python's None, where a string is expected
None == "<None>"
IGNORE_USER_ID == "ignore"
\* failing_checks[:5]
ImageLimit == 5

PASSING_STATUS == "PASSING"
WARNING_STATUS == "WARNING"
ERROR_STATUS == "ERROR"
CRITICAL_STATUS == "CRITICAL"
ACKED_STATUS == "ACKED"
Statuses == {PASSING_STATUS, WARNING_STATUS, ERROR_STATUS, CRITICAL_STATUS, ACKED_STATUS}

EMOJIS(status) ==
    CASE status = "WARNING" -> ":large_yellow_circle:"
      [] status = "ERROR" -> ":red_circle:"
      [] status = "CRITICAL" -> ":alert:"
      [] status = "PASSING" -> ":large_green_circle:"
      [] status = "ACKED" -> ":zipper_mouth_face:"
      [] OTHER -> ""

(* ------------------------------ helpers -------------------------------- *)
Min(a, b) == IF a < b THEN a ELSE b

\* a test for None alone, which lets '' through
FalsyNoneOnly(x) == x = None
\* Python truthiness of an optional string: None and '' are falsy
Falsy(x) == x = None \/ x = ""

RECURSIVE SeqToSet(_)
SeqToSet(s) == IF s = <<>> THEN {} ELSE {Head(s)} \cup SeqToSet(Tail(s))

\* every sequence of at most n elements of S
RECURSIVE SeqsUpTo(_, _)
SeqsUpTo(S, n) ==
    IF n = 0 THEN {<<>>}
    ELSE LET shorter == SeqsUpTo(S, n - 1)
         IN  shorter \cup {Append(s, x) : s \in {t \in shorter : Len(t) = n - 1}, x \in S}

\* every ordering of the finite set S (a Python set iterates in an arbitrary order)
RECURSIVE Orderings(_)
Orderings(S) ==
    IF S = {} THEN {<<>>}
    ELSE UNION {{<<x>> \o t : t \in Orderings(S \ {x})} : x \in S}

(* ------------------------------ exceptions ----------------------------- *)
NoException == [type |-> "None", error_type |-> None]
HTTPError == [type |-> "HTTPError", error_type |-> None]
SlackAPIError(error_type) == [type |-> "SlackAPIError", error_type |-> error_type]
RuntimeError(message) == [type |-> "RuntimeError", error_type |-> message]
AttributeError == [type |-> "AttributeError", error_type |-> None]

(* ------------------------------ responses ------------------------------ *)
\* response_metadata of a conversations.members page; next_cursor = None: no such key
NoMetadata == [present |-> FALSE, next_cursor |-> None]
Metadata(cursor) == [present |-> TRUE, next_cursor |-> cursor]

OkResponse ==
    [status_code |-> 200, ok |-> TRUE, error |-> None, id |-> None, ts |-> None,
     members |-> {}, response_metadata |-> NoMetadata]
ErrorResponse(error) == [OkResponse EXCEPT !.ok = FALSE, !.error = error]
HttpFailure == [OkResponse EXCEPT !.status_code = 500, !.ok = FALSE]

\* _check_response: the exception it raises, NoException when it returns
CheckResponse(response) ==
    IF response.status_code >= 400 THEN HTTPError
    ELSE IF ~response.ok
         THEN SlackAPIError(IF response.error = None THEN "<error field missing>"
                            ELSE response.error)
         ELSE NoException

(* ------------------- the state: the world and the call ----------------- *)
VARIABLES
    service,          \* the Service: statuses, slack_instance, slack_channel_id, failing checks
    users,            \* send_alert's `users` argument
    duty_officers,    \* send_alert's `duty_officers` argument
    user_data,        \* SlackAlertUserData: per user, the slack_user_id_override of each record
    slack,            \* the Slack server: what it answers, and the channel's pages of members
    pc,               \* where send_alert is: idle, join, lookup, ensure, members, invite, post, upload, done
    dispatches,       \* calls of send_alert so far
    result,           \* the exception send_alert raised, NoException when it returned
    include_mentions, \* send_alert's local
    api,              \* (url, headers, channel_id) of _get_slack_api_for_service
    failing_checks,   \* send_alert's local
    all_users,        \* send_alert's local `users` after line 220
    next_user,        \* position of the `for user in users` loop
    user_ids,         \* send_alert's local
    missing_users,    \* send_alert's local
    params,           \* _get_channel_members' params
    member_ids,       \* _get_channel_members' user_ids
    num_requests,     \* turns of the loop of this listing (their parity past MaxRequests)
    blocks,           \* the blocks send_alert composed
    ts,               \* the ts _post_message returned
    next_check,       \* position of the `for check in failing_checks[:5]` loop
    requests,         \* the HTTP requests of this dispatch, in order
    logged,           \* the logger records of this dispatch, in order
    form              \* a value entered for slack_user_id_override and what cleaning it gave

world == <<service, users, duty_officers, user_data, form>>
locals == <<include_mentions, api, failing_checks, all_users, next_user, user_ids,
            missing_users, params, member_ids, num_requests, blocks, ts, next_check>>
vars == <<service, users, duty_officers, user_data, slack, pc, dispatches, result,
          include_mentions, api, failing_checks, all_users, next_user, user_ids,
          missing_users, params, member_ids, num_requests, blocks, ts, next_check,
          requests, logged, form>>

(* ------------------------------ requests ------------------------------- *)
\* one HTTP request and the response it got
Request(endpoint, channel, response) ==
    [endpoint |-> endpoint, channel |-> channel, email |-> None, cursor |-> None,
     users |-> <<>>, blocks |-> <<>>, filename |-> <<>>, thread_ts |-> None,
     response |-> response]

RequestsTo(log, endpoint) == SelectSeq(log, LAMBDA r : r.endpoint = endpoint)

LogRecord(level, message) == [level |-> level, message |-> message]

(* ------------------------- the notification policy --------------------- *)
\* a policy that mentions on a repeated ERROR
DecideErrorRepeatMentions(old_status, current_status) ==
    [returns |-> \/ current_status = PASSING_STATUS /\ old_status = ACKED_STATUS
                 \/ current_status = ACKED_STATUS /\ old_status \in {ACKED_STATUS, PASSING_STATUS},
     include_mentions |-> current_status \notin {WARNING_STATUS, ACKED_STATUS}
                          /\ ~(current_status = PASSING_STATUS /\ old_status = WARNING_STATUS)]
\* a policy that mentions on WARNING
DecideWarningMentions(old_status, current_status) ==
    [returns |-> \/ current_status = PASSING_STATUS /\ old_status = ACKED_STATUS
                 \/ current_status = ACKED_STATUS /\ old_status \in {ACKED_STATUS, PASSING_STATUS},
     include_mentions |-> current_status # ACKED_STATUS
                          /\ ~(current_status = ERROR_STATUS /\ old_status = ERROR_STATUS)
                          /\ ~(current_status = PASSING_STATUS /\ old_status = WARNING_STATUS)]
\* a policy that does not return on PASSING -> ACKED
DecideNoReturnFromPassing(old_status, current_status) ==
    [returns |-> \/ current_status = PASSING_STATUS /\ old_status = ACKED_STATUS
                 \/ current_status = ACKED_STATUS /\ old_status = ACKED_STATUS,
     include_mentions |-> current_status \notin {WARNING_STATUS, ACKED_STATUS}
                          /\ ~(current_status = ERROR_STATUS /\ old_status = ERROR_STATUS)
                          /\ ~(current_status = PASSING_STATUS /\ old_status = WARNING_STATUS)]
\* send_alert lines 219-247: whether it returns at once, and include_mentions
Decide(old_status, current_status) ==
    LET m0 == TRUE
        m1 == IF current_status = WARNING_STATUS THEN FALSE ELSE m0
        m2 == IF current_status = ERROR_STATUS /\ old_status = ERROR_STATUS THEN FALSE ELSE m1
        r3 == current_status = PASSING_STATUS /\ old_status = ACKED_STATUS
        m3 == IF current_status = PASSING_STATUS /\ old_status = WARNING_STATUS THEN FALSE ELSE m2
        r4 == current_status = ACKED_STATUS
              /\ (old_status = ACKED_STATUS \/ old_status = PASSING_STATUS)
        m4 == IF current_status = ACKED_STATUS THEN FALSE ELSE m3
    IN  [returns |-> r3 \/ r4, include_mentions |-> m4]

(* --------------------- _get_slack_api_for_service ---------------------- *)
\* a URL: scheme and host, and the path split at '/' ('' is <<"">>, '/' is <<"", "">>,
\* '/slack' is <<"", "slack">>, '/slack/' is <<"", "slack", "">>)
Url(origin, path) == [origin |-> origin, path |-> path]

\* str.join of '/' and the segments, as the sequence of its parts
RECURSIVE JoinSegments(_)
JoinSegments(segments) ==
    LET first == IF Head(segments) = "" THEN <<>> ELSE <<Head(segments)>>
    IN  IF Len(segments) = 1 THEN first
        ELSE first \o <<"/">> \o JoinSegments(Tail(segments))

\* the string of a URL, as the sequence of its parts
urlunsplit(url) == <<url.origin>> \o JoinSegments(url.path)

\* line 76, urlparse.urljoin with a relative path (no scheme, no host, no leading '/',
\* no dot segment): the path of the base up to its last '/', then the relative path;
\* a URL with a host gets a path that starts with '/'
urljoin(base, path) ==
    LET segments == SubSeq(base.path, 1, Len(base.path) - 1) \o path
    IN  Url(base.origin, IF Head(segments) # "" THEN <<"">> \o segments ELSE segments)

NoApi == [raised |-> NoException, url |-> <<>>, headers |-> <<>>, channel_id |-> None]

\* a lookup that lacks the check of line 73
GetSlackApiForServiceNoChannelCheck(svc) ==
    IF svc.slack_instance = <<>>
    THEN [NoApi EXCEPT !.raised = RuntimeError("Slack instance not set.")]
    ELSE [raised |-> NoException,
          url |-> urljoin(svc.slack_instance[1].server_url, <<"api", "">>),
          headers |-> <<"Authorization", "Bearer ", svc.slack_instance[1].access_token>>,
          channel_id |-> IF ~Falsy(svc.slack_channel_id) THEN svc.slack_channel_id
                         ELSE svc.slack_instance[1].default_channel_id]
\* lines 64-80
GetSlackApiForService(svc) ==
    IF svc.slack_instance = <<>>
    THEN [NoApi EXCEPT !.raised = RuntimeError("Slack instance not set.")]
    ELSE LET instance == svc.slack_instance[1]
             channel_id == IF ~Falsy(svc.slack_channel_id) THEN svc.slack_channel_id
                           ELSE instance.default_channel_id
         IN  IF Falsy(channel_id)
             THEN [NoApi EXCEPT !.raised = RuntimeError("Slack channel ID not set.")]
             ELSE [raised |-> NoException,
                   url |-> urljoin(instance.server_url, <<"api", "">>),
                   headers |-> <<"Authorization", "Bearer ", instance.access_token>>,
                   channel_id |-> channel_id]

(* --------------------------- the Slack server -------------------------- *)
\* the cursor that names page n of the listing
CursorOf(n) == ToString(n)

\* the answer to a conversations.members request: a request without a cursor, or
\* with an empty one, gets the first page; a cursor names its page
MembersResponse(server, cursor) ==
    IF Falsy(cursor) THEN server.pages[1]
    ELSE IF \E n \in 1..Len(server.pages) : CursorOf(n) = cursor
         THEN server.pages[CHOOSE n \in 1..Len(server.pages) : CursorOf(n) = cursor]
         ELSE ErrorResponse("invalid_cursor")

\* the answer to the n-th files.upload request of a dispatch
UploadResponse(server, n) ==
    IF n <= Len(server.upload) THEN server.upload[n] ELSE OkResponse

\* the server after it accepted an invitation of `invited` to the channel
Invited(server, invited) ==
    [server EXCEPT !.pages[1].members = @ \cup SeqToSet(invited)]

(* ------------------------- the identity resolver ----------------------- *)
\* the last truthy override, None if none
LastOverride(records) ==
    LET truthy == SelectSeq(records, LAMBDA v : ~Falsy(v))
    IN  IF truthy = <<>> THEN None ELSE truthy[Len(truthy)]
\* _cabot_user_to_slack_user_id, lines 113-115: the first truthy override, None if none
RECURSIVE FirstOverride(_)
FirstOverride(records) ==
    IF records = <<>> THEN None
    ELSE IF ~Falsy(Head(records)) THEN Head(records)
    ELSE FirstOverride(Tail(records))

\* _cabot_user_to_slack_user_id and _email_to_slack_user_id: the requests issued, the
\* exception raised and the user ID returned
CabotUserToSlackUserId(server, overrides, user) ==
    LET override == FirstOverride(overrides[user])
        response == server.lookup[user]
    IN  IF override # None
        THEN [requests |-> <<>>, raised |-> NoException, user_id |-> override]
        ELSE [requests |-> <<[Request("users.lookupByEmail", None, response) EXCEPT !.email = user]>>,
              raised |-> CheckResponse(response),
              user_id |-> response.id]

\* a filter that keeps every user ID
KeepsUserIdAlways(user_id) == TRUE
\* line 269: `if user_id != IGNORE_USER_ID`
KeepsUserId(user_id) == user_id # IGNORE_USER_ID

(* --------------------------- the except clauses ------------------------ *)
\* Each gives the records logged and the exception that leaves send_alert
\* (NoException: the clause swallowed it).
Handled(records, raised) == [logged |-> records, raised |-> raised]

\* lines 255-260
JoinExcept(e, channel_id) ==
    IF e.type = "SlackAPIError" /\ e.error_type = "method_not_supported_for_channel_type"
    THEN Handled(<<>>, NoException)
    ELSE Handled(<<LogRecord("warning", "Could not join channel")>>, NoException)

\* lines 271-275: the logging call reads e.error_type, which requests.HTTPError lacks
LookupExcept(e, user) ==
    IF e.type = "SlackAPIError" /\ e.error_type = "users_not_found"
    THEN Handled(<<>>, NoException)
    ELSE IF e.type = "SlackAPIError"
         THEN Handled(<<LogRecord("exception", "Failed to find Slack user")>>, NoException)
         ELSE Handled(<<>>, AttributeError)

\* a clause that logs and re-raises
EnsureExceptRaises(e, channel_id) ==
    Handled(<<LogRecord("exception", "Failed to add users to channel")>>, e)
\* lines 280-281
EnsureExcept(e, channel_id) ==
    Handled(<<LogRecord("exception", "Failed to add users to channel")>>, NoException)

\* a clause that logs and does not re-raise
PostExceptSwallows(e, channel_id) ==
    Handled(<<LogRecord("exception", "Error posting message to Slack channel")>>, NoException)
\* lines 378-380
PostExcept(e, channel_id) ==
    Handled(<<LogRecord("exception", "Error posting message to Slack channel")>>, e)

\* a clause that logs and re-raises
UploadExceptRaises(e, channel_id) ==
    Handled(<<LogRecord("exception", "Failed to get/upload images")>>, e)
\* lines 388-390
UploadExcept(e, channel_id) ==
    Handled(<<LogRecord("exception", "Failed to get/upload images")>>, NoException)

(* ------------------------ membership reconciliation -------------------- *)
\* an assignment in place of the +=
AccumulateMembersLastPageOnly(ids, response) == response.members
\* line 136: user_ids += response.json()['members'], read as a set at line 142
AccumulateMembers(ids, response) == ids \cup response.members

\* line 139: response.json().get('response_metadata', {}).get('next_cursor')
NextCursor(response) ==
    IF response.response_metadata.present THEN response.response_metadata.next_cursor
    ELSE None

\* `if params['cursor'] is None: break`
EndOfListingNoneOnly(cursor) == FalsyNoneOnly(cursor)
\* line 140: `if not params['cursor']: break`
EndOfListing(cursor) == Falsy(cursor)

\* line 167: set(user_ids) - user_ids_in_channel
MissingUserIds(ids, in_channel) == SeqToSet(ids) \ in_channel

(* ---------------------------- the message blocks ----------------------- *)
Block(type) ==
    [type |-> type, service |-> None, status |-> None, emoji |-> None, check |-> None,
     mentions |-> <<>>, point_up |-> FALSE, missing |-> <<>>]

\* lines 283-293
HeaderBlock(svc) ==
    [Block("header") EXCEPT !.service = svc.name, !.status = svc.overall_status,
                            !.emoji = EMOJIS(svc.overall_status)]
\* lines 311-319
SectionBlock(check) == [Block("section") EXCEPT !.check = check.name]
\* lines 337-345
MentionsBlock(ids) == [Block("context") EXCEPT !.mentions = ids, !.point_up = TRUE]
\* lines 347-371
MissingUsersBlock(missing) == [Block("context") EXCEPT !.missing = missing]

\* the blocks with the mentions put before the sections
ComposeBlocksMentionsFirst(svc, checks, mentions, ids, missing) ==
    <<HeaderBlock(svc)>>
    \o (IF mentions /\ ids # <<>> THEN <<MentionsBlock(ids)>> ELSE <<>>)
    \o [n \in 1..Len(checks) |-> SectionBlock(checks[n])]
    \o (IF mentions /\ missing # <<>> THEN <<MissingUsersBlock(missing)>> ELSE <<>>)
\* the blocks with both context blocks whatever include_mentions says
ComposeBlocksIgnoringFlag(svc, checks, mentions, ids, missing) ==
    <<HeaderBlock(svc)>>
    \o [n \in 1..Len(checks) |-> SectionBlock(checks[n])]
    \o (IF ids # <<>> THEN <<MentionsBlock(ids)>> ELSE <<>>)
    \o (IF missing # <<>> THEN <<MissingUsersBlock(missing)>> ELSE <<>>)
\* lines 283-371
ComposeBlocks(svc, checks, mentions, ids, missing) ==
    <<HeaderBlock(svc)>>
    \o [n \in 1..Len(checks) |-> SectionBlock(checks[n])]
    \o (IF mentions /\ ids # <<>> THEN <<MentionsBlock(ids)>> ELSE <<>>)
    \o (IF mentions /\ missing # <<>> THEN <<MissingUsersBlock(missing)>> ELSE <<>>)

(* ------------------------------ image uploads -------------------------- *)
\* the loop without the slice
UploadCandidatesUncapped(checks) == checks
\* line 384: failing_checks[:5]
UploadCandidates(checks) == SubSeq(checks, 1, Min(ImageLimit, Len(checks)))

(* ------------------- the slack_user_id_override field ------------------ *)
\* a value of the field is a sequence of characters; the spelling of the values the
\* dispatch treats as atoms
Spell(value) ==
    CASE value = "ignore" -> <<"i", "g", "n", "o", "r", "e">>
      [] value = "U123" -> <<"U", "1", "2", "3">>
      [] value = "W777" -> <<"W", "7", "7", "7">>
      [] OTHER -> <<>>

\* str.startswith
startswith(str, prefix) ==
    Len(str) >= Len(prefix) /\ SubSeq(str, 1, Len(prefix)) = prefix

\* line 404: max_length=50
max_length == 50

\* lines 393-395: the ValidationError messages raised for slack_id
validate_slack_user_id(slack_id) ==
    IF ~(startswith(slack_id, <<"U">>) \/ startswith(slack_id, <<"W">>))
    THEN {"Slack user ID should start with a U or W"}
    ELSE {}

\* the validator CharField adds for max_length
MaxLengthValidator(value) ==
    IF Len(value) > max_length THEN {"Ensure this value has at most 50 characters"} ELSE {}

\* line 404: cleaning a value of CharField(max_length=50, blank=True, validators=[...]):
\* blank=True lets the empty value through and an empty value skips the validators;
\* any other value is given to every validator and the errors are collected
CleanOverride(value) ==
    IF value = <<>> THEN {}
    ELSE validate_slack_user_id(value) \cup MaxLengthValidator(value)

NoForm == [slack_user_id_override |-> <<>>, state |-> "none", errors |-> {}]
Entered(value) == [slack_user_id_override |-> value, state |-> "entered", errors |-> {}]

(* ------------------------- the worlds of Init -------------------------- *)
Recipients == {"alice", "bob"}
SlackIdOf(user) == IF user = "alice" THEN "UALICE" ELSE "UBOB"

Found(user) == [OkResponse EXCEPT !.id = SlackIdOf(user)]
Posted(stamp) == [OkResponse EXCEPT !.ts = stamp]
Page(ids, metadata) == [OkResponse EXCEPT !.members = ids, !.response_metadata = metadata]
Check(n, image) == [name |-> ToString(n), image |-> image]

\* what the last page of a listing may carry: no response_metadata, no next_cursor, ''
LastPageMetadata == {NoMetadata, Metadata(None), Metadata("")}

\* a listing of the given member sets, page n naming page n + 1, the last page ending it
Listing(sets, last) ==
    [n \in 1..Len(sets) |->
        Page(sets[n], IF n < Len(sets) THEN Metadata(CursorOf(n + 1)) ELSE last)]

\* the listing is a chain of pages that all answer ok
WellFormedListing(pages) ==
    \A n \in 1..Len(pages) :
        /\ CheckResponse(pages[n]) = NoException
        /\ IF n < Len(pages) THEN NextCursor(pages[n]) = CursorOf(n + 1)
           ELSE Falsy(NextCursor(pages[n]))

BaseInstance ==
    [server_url |-> Url("https://slack.com", <<"">>), access_token |-> "SOME-TOKEN",
     default_channel_id |-> "default-channel"]
BaseService ==
    [name |-> "Service", overall_status |-> ERROR_STATUS, old_overall_status |-> PASSING_STATUS,
     slack_instance |-> <<BaseInstance>>, slack_channel_id |-> "C456",
     failing_checks |-> <<Check(1, "png")>>]
BaseUserData == [u \in Recipients |-> IF u = "alice" THEN <<"U123">> ELSE <<>>]
BaseSlack ==
    [join |-> OkResponse, lookup |-> [u \in Recipients |-> Found(u)],
     pages |-> Listing(<<{}>>, Metadata("")), invite |-> OkResponse,
     post |-> Posted("T1"), upload |-> <<>>]
BaseWorld ==
    [service |-> BaseService, users |-> <<"alice">>, duty_officers |-> <<"bob">>,
     user_data |-> BaseUserData, slack |-> BaseSlack]

Failures == {HttpFailure, ErrorResponse("fatal_error"), ErrorResponse(None)}

\* every status pair with every configuration of instance and channel
PolicyWorlds ==
    {[BaseWorld EXCEPT !.service.old_overall_status = old, !.service.overall_status = cur,
                       !.service.slack_instance = inst, !.service.slack_channel_id = chan] :
        old \in Statuses, cur \in Statuses,
        inst \in {<<>>, <<BaseInstance>>, <<[BaseInstance EXCEPT !.default_channel_id = ""]>>},
        chan \in {None, "", "C456"}}

\* the answers to conversations.join
JoinWorlds ==
    {[BaseWorld EXCEPT !.slack.join = r, !.slack.lookup["bob"] = found] :
        r \in Failures \cup {ErrorResponse("method_not_supported_for_channel_type")},
        found \in {Found("bob"), ErrorResponse("users_not_found"), HttpFailure}}

\* how one recipient resolves: the override records and the answer to the email lookup
Profiles(user) ==
    {[overrides |-> <<"U123">>, lookup |-> Found(user)],
     [overrides |-> <<IGNORE_USER_ID>>, lookup |-> Found(user)],
     [overrides |-> <<"", "W777", "U123">>, lookup |-> Found(user)],
     [overrides |-> <<>>, lookup |-> Found(user)],
     [overrides |-> <<"">>, lookup |-> ErrorResponse("users_not_found")],
     [overrides |-> <<>>, lookup |-> ErrorResponse("fatal_error")],
     [overrides |-> <<>>, lookup |-> HttpFailure]}
DutyProfiles(user) ==
    {p \in Profiles(user) : p.overrides \in {<<>>, <<"">>, <<IGNORE_USER_ID>>}
                            /\ p.lookup # ErrorResponse("fatal_error")}

RecipientWorlds ==
    {[BaseWorld EXCEPT !.service.old_overall_status = st[1], !.service.overall_status = st[2],
                       !.users = us, !.duty_officers = ds,
                       !.user_data = [u \in Recipients |-> IF u = "alice" THEN pa.overrides
                                                           ELSE pb.overrides],
                       !.slack.lookup = [u \in Recipients |-> IF u = "alice" THEN pa.lookup
                                                              ELSE pb.lookup]] :
        st \in {<<PASSING_STATUS, ERROR_STATUS>>, <<ERROR_STATUS, ACKED_STATUS>>},
        us \in SeqsUpTo(Recipients, MaxUsers), ds \in {<<>>, <<"bob">>},
        pa \in Profiles("alice"), pb \in DutyProfiles("bob")}

\* the channel's listing and the answer to conversations.invite
MemberSets == {{}, {"U123"}, {"UBOB"}}
MemberWorlds ==
    {[BaseWorld EXCEPT !.users = us, !.duty_officers = <<>>,
                       !.slack.pages = Listing(sets, end[1]), !.slack.invite = end[2]] :
        us \in {<<"alice">>, <<"alice", "bob">>, <<"bob", "bob">>},
        sets \in SeqsUpTo(MemberSets, MaxPages) \ {<<>>},
        end \in (LastPageMetadata \X {OkResponse})
                \cup ({Metadata("")} \X {HttpFailure, ErrorResponse("already_in_channel")})}
    \cup
    {[BaseWorld EXCEPT !.slack.pages = [Listing([n \in 1..at[1] |-> {}], Metadata(""))
                                            EXCEPT ![at[2]] = r]] :
        at \in {x \in (1..MaxPages) \X (1..MaxPages) : x[2] <= x[1]}, r \in Failures}

\* the failing checks, their images, and the answers to chat.postMessage and files.upload
CheckLists ==
    UNION {[1..len -> {None, "png"}] : len \in 0..MaxChecks}
UploadScripts ==
    {<<>>} \cup {[n \in 1..len |-> IF n < len THEN OkResponse ELSE r] :
                    len \in 1..ImageLimit, r \in {HttpFailure, ErrorResponse("fatal_error")}}
CheckWorlds ==
    {[BaseWorld EXCEPT !.service.failing_checks = [n \in 1..Len(images) |-> Check(n, images[n])],
                       !.slack.post = p[1], !.slack.upload = p[2]] :
        images \in CheckLists,
        p \in ({Posted("T1"), Posted("T2")} \cup Failures) \X {<<>>}
              \cup {Posted("T1")} \X UploadScripts}

\* PASSING -> WARNING without a failing check (test_passing_to_warning), for recipients
\* of every profile and a channel that has or lacks the overridden user ID
WarningWorlds ==
    {[BaseWorld EXCEPT !.service.old_overall_status = PASSING_STATUS,
                       !.service.overall_status = WARNING_STATUS,
                       !.service.failing_checks = <<>>,
                       !.users = us, !.duty_officers = <<>>,
                       !.user_data = [u \in Recipients |-> IF u = "alice" THEN pa.overrides
                                                           ELSE pb.overrides],
                       !.slack.lookup = [u \in Recipients |-> IF u = "alice" THEN pa.lookup
                                                              ELSE pb.lookup],
                       !.slack.pages = Listing(<<in_channel>>, Metadata(""))] :
        us \in {<<>>, <<"alice">>, <<"alice", "bob">>},
        pa \in Profiles("alice"), pb \in DutyProfiles("bob"),
        in_channel \in {{}, {"U123"}}}

\* the server URLs of a chat instance: a bare host, a host with '/', with a path, and
\* with a path that ends in '/'
ServerUrls ==
    {Url("https://slack.com", <<"">>), Url("https://slack.com", <<"", "">>),
     Url("https://chat.example", <<"", "slack">>),
     Url("https://chat.example", <<"", "slack", "">>),
     Url("https://chat.example", <<"", "corp", "slack">>)}
\* the configuration _get_slack_api_for_service reads
ConfigWorlds ==
    {[BaseWorld EXCEPT !.service.slack_instance =
                            <<[server_url |-> url, access_token |-> token,
                               default_channel_id |-> default]>>,
                       !.service.slack_channel_id = chan] :
        url \in ServerUrls, token \in {"SOME-TOKEN", "OTHER-TOKEN"},
        default \in {"default-channel", ""}, chan \in {None, "", "C456"}}

Worlds ==
    PolicyWorlds \cup JoinWorlds \cup RecipientWorlds \cup MemberWorlds \cup CheckWorlds
    \cup WarningWorlds \cup ConfigWorlds

(* ------------------------------- Init ---------------------------------- *)
NoParams == [channel |-> None, cursor |-> None]

\* send_alert has not been called in world w
Idle(w) ==
    /\ service = w.service
    /\ users = w.users
    /\ duty_officers = w.duty_officers
    /\ user_data = w.user_data
    /\ slack = w.slack
    /\ pc = "idle"
    /\ dispatches = 0
    /\ result = NoException
    /\ include_mentions = TRUE
    /\ api = NoApi
    /\ failing_checks = <<>>
    /\ all_users = <<>>
    /\ next_user = 1
    /\ user_ids = <<>>
    /\ missing_users = <<>>
    /\ params = NoParams
    /\ member_ids = {}
    /\ num_requests = 0
    /\ blocks = <<>>
    /\ ts = None
    /\ next_check = 1
    /\ requests = <<>>
    /\ logged = <<>>

Init ==
    /\ \E w \in Worlds : Idle(w)
    /\ form = NoForm

(* ------------------------------ send_alert ----------------------------- *)
\* send_alert returns, or raises `raised`
Leave(raised) ==
    /\ pc' = "done"
    /\ result' = raised

\* lines 217-250: the policy, the configuration, the failing checks
SendAlert ==
    /\ pc \in {"idle", "done"}
    /\ dispatches < MaxDispatches
    /\ dispatches' = dispatches + 1
    /\ LET decision == Decide(service.old_overall_status, service.overall_status)
           target == GetSlackApiForService(service)
       IN  /\ include_mentions' = decision.include_mentions
           /\ all_users' = users \o duty_officers
           /\ IF decision.returns
              THEN Leave(NoException) /\ api' = NoApi /\ failing_checks' = <<>>
              ELSE IF target.raised # NoException
              THEN Leave(target.raised) /\ api' = NoApi /\ failing_checks' = <<>>
              ELSE /\ pc' = "join"
                   /\ result' = NoException
                   /\ api' = target
                   /\ failing_checks' = service.failing_checks
    /\ next_user' = 1
    /\ user_ids' = <<>>
    /\ missing_users' = <<>>
    /\ params' = NoParams
    /\ member_ids' = {}
    /\ num_requests' = 0
    /\ blocks' = <<>>
    /\ ts' = None
    /\ next_check' = 1
    /\ requests' = <<>>
    /\ logged' = <<>>
    /\ UNCHANGED <<world, slack>>

\* a dispatch that goes to the recipients without the join request
JoinChannelSkipped ==
    /\ pc = "join"
    /\ pc' = IF all_users = <<>> THEN "ensure" ELSE "lookup"
    /\ UNCHANGED <<world, slack, dispatches, result, locals, requests, logged>>
\* lines 252-260: _join_channel and its except clause
JoinChannel ==
    /\ pc = "join"
    /\ requests' = Append(requests, Request("conversations.join", api.channel_id, slack.join))
    /\ LET e == CheckResponse(slack.join)
           h == IF e = NoException THEN Handled(<<>>, NoException)
                ELSE JoinExcept(e, api.channel_id)
       IN  /\ logged' = logged \o h.logged
           /\ pc' = IF all_users = <<>> THEN "ensure" ELSE "lookup"
    /\ UNCHANGED <<world, slack, dispatches, result, locals>>

\* lines 266-275: one turn of `for user in users`
LookupUser ==
    /\ pc = "lookup"
    /\ LET user == all_users[next_user]
           r == CabotUserToSlackUserId(slack, user_data, user)
           h == IF r.raised = NoException THEN Handled(<<>>, NoException)
                ELSE LookupExcept(r.raised, user)
       IN  /\ requests' = requests \o r.requests
           /\ user_ids' = IF r.raised = NoException /\ KeepsUserId(r.user_id)
                          THEN Append(user_ids, r.user_id) ELSE user_ids
           /\ missing_users' = IF r.raised = NoException THEN missing_users
                               ELSE Append(missing_users, user)
           /\ logged' = logged \o h.logged
           /\ IF h.raised # NoException
              THEN Leave(h.raised) /\ next_user' = next_user
              ELSE /\ next_user' = next_user + 1
                   /\ pc' = IF next_user = Len(all_users) THEN "ensure" ELSE "lookup"
                   /\ result' = result
    /\ UNCHANGED <<world, slack, dispatches, include_mentions, api, failing_checks, all_users,
                   params, member_ids, num_requests, blocks, ts, next_check>>

\* lines 163-166 and 128-132: _ensure_channel_members returns at once for no user IDs,
\* and else starts the listing
EnsureChannelMembers ==
    /\ pc = "ensure"
    /\ IF Len(user_ids) = 0
       THEN pc' = "post" /\ params' = params
       ELSE pc' = "members" /\ params' = [channel |-> api.channel_id, cursor |-> None]
    /\ member_ids' = {}
    /\ num_requests' = 0
    /\ UNCHANGED <<world, slack, dispatches, result, include_mentions, api, failing_checks,
                   all_users, next_user, user_ids, missing_users, blocks, ts, next_check,
                   requests, logged>>

\* lines 133-141: one turn of _get_channel_members' loop; an exception leaves
\* _ensure_channel_members and is caught at lines 280-281. The loop has no bound of its
\* own: the log keeps the first MaxRequests requests of the listing, and past
\* MaxRequests the count of the turns keeps their parity only
GetChannelMembers ==
    /\ pc = "members"
    /\ num_requests' = IF num_requests < MaxRequests THEN num_requests + 1
                       ELSE MaxRequests - 1
    /\ LET response == MembersResponse(slack, params.cursor)
           e == CheckResponse(response)
       IN  /\ requests' = IF Len(RequestsTo(requests, "conversations.members")) < MaxRequests
                          THEN Append(requests,
                                      [Request("conversations.members", params.channel, response)
                                          EXCEPT !.cursor = params.cursor])
                          ELSE requests
           /\ IF e # NoException
              THEN /\ logged' = logged \o EnsureExcept(e, api.channel_id).logged
                   /\ IF EnsureExcept(e, api.channel_id).raised # NoException
                      THEN Leave(EnsureExcept(e, api.channel_id).raised)
                      ELSE pc' = "post" /\ result' = result
                   /\ UNCHANGED <<member_ids, params>>
              ELSE /\ member_ids' = AccumulateMembers(member_ids, response)
                   /\ params' = [params EXCEPT !.cursor = NextCursor(response)]
                   /\ pc' = IF EndOfListing(NextCursor(response)) THEN "invite" ELSE "members"
                   /\ logged' = logged
                   /\ result' = result
    /\ UNCHANGED <<world, slack, dispatches, include_mentions, api, failing_checks,
                   all_users, next_user, user_ids, missing_users, blocks, ts, next_check>>

\* lines 167-173: the invitation, and the except clause of lines 280-281
InviteMembers ==
    /\ pc = "invite"
    /\ \E missing_user_ids \in Orderings(MissingUserIds(user_ids, member_ids)) :
        /\ requests' = Append(requests, [Request("conversations.invite", api.channel_id,
                                                 slack.invite)
                                            EXCEPT !.users = missing_user_ids])
        /\ LET e == CheckResponse(slack.invite)
           IN  IF e # NoException
               THEN /\ logged' = logged \o EnsureExcept(e, api.channel_id).logged
                    /\ slack' = slack
                    /\ IF EnsureExcept(e, api.channel_id).raised # NoException
                       THEN Leave(EnsureExcept(e, api.channel_id).raised)
                       ELSE pc' = "post" /\ result' = result
               ELSE /\ logged' = logged
                    /\ slack' = Invited(slack, missing_user_ids)
                    /\ pc' = "post"
                    /\ result' = result
    /\ UNCHANGED <<world, dispatches, locals>>

\* lines 283-380: the blocks, _post_message and its except clause
PostMessage ==
    /\ pc = "post"
    /\ blocks' = ComposeBlocks(service, failing_checks, include_mentions, user_ids, missing_users)
    /\ requests' = Append(requests, [Request("chat.postMessage", api.channel_id, slack.post)
                                        EXCEPT !.blocks = blocks'])
    /\ LET e == CheckResponse(slack.post)
           h == IF e = NoException THEN Handled(<<>>, NoException)
                ELSE PostExcept(e, api.channel_id)
       IN  /\ logged' = logged \o h.logged
           /\ ts' = IF e = NoException THEN slack.post.ts ELSE ts
           /\ IF h.raised # NoException THEN Leave(h.raised)
              ELSE IF UploadCandidates(failing_checks) = <<>>
              THEN Leave(NoException)
              ELSE pc' = "upload" /\ result' = result
    /\ next_check' = 1
    /\ UNCHANGED <<world, slack, dispatches, include_mentions, api, failing_checks, all_users,
                   next_user, user_ids, missing_users, params, member_ids, num_requests>>

\* a loop with the try inside: a failed upload is logged and the next check is tried
UploadImageContinuing ==
    /\ pc = "upload"
    /\ LET candidates == UploadCandidates(failing_checks)
           check == candidates[next_check]
           n == Len(RequestsTo(requests, "files.upload")) + 1
           response == UploadResponse(slack, n)
           e == IF check.image = None THEN NoException ELSE CheckResponse(response)
       IN  /\ requests' = IF check.image = None THEN requests
                          ELSE Append(requests,
                                      [Request("files.upload", api.channel_id, response)
                                          EXCEPT !.filename = <<check.name, ".png">>,
                                                 !.thread_ts = ts])
           /\ logged' = IF e # NoException
                        THEN logged \o UploadExcept(e, api.channel_id).logged ELSE logged
           /\ next_check' = next_check + 1
           /\ IF next_check = Len(candidates) THEN Leave(NoException)
              ELSE pc' = pc /\ result' = result
    /\ UNCHANGED <<world, slack, dispatches, include_mentions, api, failing_checks, all_users,
                   next_user, user_ids, missing_users, params, member_ids, num_requests,
                   blocks, ts>>
\* lines 383-390: one turn of `for check in failing_checks[:5]`
UploadImage ==
    /\ pc = "upload"
    /\ LET candidates == UploadCandidates(failing_checks)
           check == candidates[next_check]
           n == Len(RequestsTo(requests, "files.upload")) + 1
           response == UploadResponse(slack, n)
           e == IF check.image = None THEN NoException ELSE CheckResponse(response)
       IN  /\ requests' = IF check.image = None THEN requests
                          ELSE Append(requests,
                                      [Request("files.upload", api.channel_id, response)
                                          EXCEPT !.filename = <<check.name, ".png">>,
                                                 !.thread_ts = ts])
           /\ IF e # NoException
              THEN /\ logged' = logged \o UploadExcept(e, api.channel_id).logged
                   /\ Leave(UploadExcept(e, api.channel_id).raised)
                   /\ next_check' = next_check
              ELSE /\ logged' = logged
                   /\ next_check' = next_check + 1
                   /\ IF next_check = Len(candidates) THEN Leave(NoException)
                      ELSE pc' = pc /\ result' = result
    /\ UNCHANGED <<world, slack, dispatches, include_mentions, api, failing_checks, all_users,
                   next_user, user_ids, missing_users, params, member_ids, num_requests,
                   blocks, ts>>

Next ==
    \/ SendAlert
    \/ JoinChannel
    \/ LookupUser
    \/ EnsureChannelMembers
    \/ GetChannelMembers
    \/ InviteMembers
    \/ PostMessage
    \/ UploadImage

Spec == Init /\ [][Next]_vars

(* --------------------- listings of any pagination ---------------------- *)
\* listings whose last page names an earlier page, or itself, as the next one: a server
\* that returns the same non-empty cursor on every page is the listing of one page that
\* names itself
CyclingListings ==
    {Listing(at[1], Metadata(CursorOf(at[2]))) :
        at \in {x \in (SeqsUpTo(MemberSets, MaxPages) \ {<<>>}) \X (1..MaxPages) :
                    x[2] <= Len(x[1])}}
\* listings whose last page names a page the server does not have
DanglingListings ==
    {Listing(sets, Metadata("gone")) : sets \in SeqsUpTo(MemberSets, MaxPages) \ {<<>>}}

ListingWorlds ==
    MemberWorlds
    \cup {[BaseWorld EXCEPT !.slack.pages = pages] :
              pages \in CyclingListings \cup DanglingListings}

ListingInit ==
    /\ \E w \in ListingWorlds : Idle(w)
    /\ form = NoForm

\* send_alert runs on: a step that can be taken is taken
ListingSpec == ListingInit /\ [][Next]_vars /\ WF_vars(Next)

(* ------------------- entering an override in the profile --------------- *)
FirstChars == {"U", "W", "u", "w", "i", "C", "1"}
TailChars == {"1", "U", "g"}
\* the values entered: empty, the values the tests and the help text name, one that is
\* too long, and every first character followed by a short tail
EnteredValues ==
    {<<>>, Spell(IGNORE_USER_ID), Spell("U123"), Spell("W777"),
     [n \in 1..(max_length + 1) |-> "U"], [n \in 1..max_length |-> "W"]}
    \cup {<<c>> \o t : c \in FirstChars, t \in SeqsUpTo(TailChars, MaxTail)}

FormInit ==
    /\ Idle(BaseWorld)
    /\ \E value \in EnteredValues : form = Entered(value)

\* the profile form cleans the entered value (full_clean of the model field)
FullClean ==
    /\ form.state = "entered"
    /\ form' = [form EXCEPT !.state = "cleaned",
                            !.errors = CleanOverride(form.slack_user_id_override)]
    /\ UNCHANGED <<service, users, duty_officers, user_data, slack, pc, dispatches, result,
                   locals, requests, logged>>

FormNext == FullClean

FormSpec == FormInit /\ [][FormNext]_vars

(* ============================== the claims ============================= *)
old_status == service.old_overall_status
current_status == service.overall_status

\* the transition table of the specification, first matching rule first
TableDecision(previous, current) ==
    IF current = "WARNING" THEN "SEND_SILENT"
    ELSE IF previous = "ERROR" /\ current = "ERROR" THEN "SEND_SILENT"
    ELSE IF current = "ERROR" THEN "SEND_WITH_MENTIONS"
    ELSE IF previous = "ACKED" /\ current = "PASSING" THEN "SUPPRESS"
    ELSE IF previous = "WARNING" /\ current = "PASSING" THEN "SEND_SILENT"
    ELSE IF current = "PASSING" THEN "SEND_WITH_MENTIONS"
    ELSE IF previous = "ACKED" /\ current = "ACKED" THEN "SUPPRESS"
    ELSE IF previous = "PASSING" /\ current = "ACKED" THEN "SUPPRESS"
    ELSE IF current = "ACKED" THEN "SEND_SILENT"
    ELSE IF current = "CRITICAL" THEN "SEND_WITH_MENTIONS"
    ELSE "NO_RULE"

\* what the dispatch under way (or just finished) decided: it returned at once without a
\* request and without raising, or it went on with or without mentions
ObservedDecision ==
    IF pc = "done" /\ requests = <<>> /\ result = NoException THEN "SUPPRESS"
    ELSE IF include_mentions THEN "SEND_WITH_MENTIONS"
    ELSE "SEND_SILENT"

\* C1: for each of the 25 (previous, current) pairs the decision send_alert makes is the
\* one the transition table gives, first matching rule first, and is one of the three
\* results.
C1_DecisionFollowsTable ==
    dispatches > 0 =>
        /\ ObservedDecision = TableDecision(old_status, current_status)
        /\ ObservedDecision \in {"SUPPRESS", "SEND_SILENT", "SEND_WITH_MENTIONS"}

\* a repeated ERROR was posted without mentions
C1_Witness ==
    /\ pc = "done"
    /\ old_status = "ERROR" /\ current_status = "ERROR"
    /\ ObservedDecision = "SEND_SILENT"
    /\ RequestsTo(requests, "chat.postMessage") # <<>>

\* the three suppressed transitions
SuppressedPair ==
    \/ old_status = "ACKED" /\ current_status = "ACKED"
    \/ old_status = "PASSING" /\ current_status = "ACKED"
    \/ old_status = "ACKED" /\ current_status = "PASSING"

\* C2: on a suppressed transition (ACKED->ACKED, PASSING->ACKED, ACKED->PASSING)
\* send_alert returns without any chat API request.
C2_SuppressedIssuesNoRequest ==
    (dispatches > 0 /\ SuppressedPair) =>
        /\ pc = "done"
        /\ result = NoException
        /\ requests = <<>>

\* a PASSING->ACKED dispatch of a fully configured service returned with no request
C2_Witness ==
    /\ pc = "done"
    /\ old_status = "PASSING" /\ current_status = "ACKED"
    /\ GetSlackApiForService(service).raised = NoException
    /\ requests = <<>>
    /\ result = NoException

(* what the log of the dispatch shows *)
Lookups == {n \in 1..Len(requests) : requests[n].endpoint = "users.lookupByEmail"}
Invites == {n \in 1..Len(requests) : requests[n].endpoint = "conversations.invite"}
Posts == RequestsTo(requests, "chat.postMessage")
Uploads == RequestsTo(requests, "files.upload")
Raised(n) == CheckResponse(requests[n].response)
UserNotFound == SlackAPIError("users_not_found")

\* the `for user in users` loop ran to its end: every recipient was resolved
EveryRecipientResolved == next_user = Len(all_users) + 1

\* the posted message names `user` in a missing-users context block
NamedMissing(user) ==
    /\ Posts # <<>>
    /\ \E b \in 1..Len(Posts[1].blocks) :
        /\ Posts[1].blocks[b].type = "context"
        /\ user \in SeqToSet(Posts[1].blocks[b].missing)

\* C3: if the lookup of one recipient fails with users_not_found, every other recipient
\* is still looked up, the message is still posted and, with mentions enabled, the
\* recipient is named in the missing-users block of the posted message.
C3_NotFoundBlocksNothing ==
    (pc = "done" /\ \E n \in Lookups : Raised(n) = UserNotFound) =>
        /\ EveryRecipientResolved
        /\ Posts # <<>>
        /\ include_mentions =>
            \A n \in Lookups : Raised(n) = UserNotFound => NamedMissing(requests[n].email)

\* C4: if the lookup of a recipient fails with a transport error or with an API error
\* other than users_not_found, the recipient is unresolved, a diagnostic is logged, the
\* remaining recipients are still looked up and the message is still posted.
C4_UnexpectedLookupFailureBlocksNothing ==
    \A n \in Lookups :
        (pc = "done" /\ Raised(n) \notin {NoException, UserNotFound}) =>
            /\ requests[n].email \in SeqToSet(missing_users)
            /\ LogRecord("exception", "Failed to find Slack user") \in SeqToSet(logged)
            /\ EveryRecipientResolved
            /\ Posts # <<>>

\* the chat.postMessage request of the dispatch failed
PostFailed == Posts # <<>> /\ CheckResponse(Posts[1].response) # NoException

\* C5: if the message post fails with a transport or API error, send_alert raises that
\* error to its caller and attempts no image upload.
C5_PostFailurePropagates ==
    PostFailed =>
        /\ pc = "done"
        /\ result = CheckResponse(Posts[1].response)
        /\ result.type \in {"HTTPError", "SlackAPIError"}
        /\ Uploads = <<>>

\* the post failed with HTTP 500 although the first failing check had an image to upload
C5_Witness ==
    /\ PostFailed
    /\ pc = "done"
    /\ result = HTTPError
    /\ failing_checks # <<>> /\ failing_checks[1].image # None

\* the service has no chat instance, or neither a channel of its own nor a default one
NotConfigured ==
    \/ service.slack_instance = <<>>
    \/ /\ service.slack_channel_id \in {None, ""}
       /\ service.slack_instance[1].default_channel_id \in {None, ""}

\* C6: on a transition that is not suppressed, a service without a chat instance, or
\* with neither channel ID, makes send_alert raise a configuration error before any
\* chat API request.
C6_ConfigurationErrorBeforeAnyRequest ==
    (dispatches > 0 /\ ~SuppressedPair /\ NotConfigured) =>
        /\ pc = "done"
        /\ result.type = "RuntimeError"
        /\ requests = <<>>

\* an instance is set, but no channel ID: the dispatch raised with no request
C6_Witness ==
    /\ pc = "done"
    /\ ~SuppressedPair
    /\ service.slack_instance # <<>>
    /\ NotConfigured
    /\ result = RuntimeError("Slack channel ID not set.")
    /\ requests = <<>>

\* the user IDs _ensure_channel_members was asked to have in the channel
Desired == SeqToSet(user_ids)
\* the members of the pages the listing returned before request n
ListedBefore(n) ==
    UNION {requests[k].response.members :
              k \in {j \in 1..(n - 1) : /\ requests[j].endpoint = "conversations.members"
                                        /\ Raised(j) = NoException}}

\* C7: _ensure_channel_members issues an invite call only when desired minus current is
\* non-empty; on a channel that already has every desired user ID it issues none.
C7_InviteOnlyWhenSomeoneIsMissing ==
    \A n \in Invites : Desired \ ListedBefore(n) # {}

\* C8: the user IDs of an invite call are exactly the desired user IDs minus the union of
\* the members of all pages of the listing, each ID once.
C8_InviteIsTheSetDifference ==
    \A n \in Invites :
        /\ SeqToSet(requests[n].users) = Desired \ ListedBefore(n)
        /\ Len(requests[n].users) = Cardinality(SeqToSet(requests[n].users))

\* a desired user ID was on an earlier page of the listing, not on the last; another
\* desired user ID was invited
C8_Witness ==
    \E n \in Invites :
        /\ requests[n].users # <<>>
        /\ Len(RequestsTo(requests, "conversations.members")) >= 2
        /\ Desired \cap ListedBefore(n) # {}
        /\ Desired \cap requests[n - 1].response.members = {}

\* C9: a listing served in N pages, each but the last carrying a non-empty next cursor,
\* ends within N + 1 requests, whether the last page omits the cursor (or the whole
\* response_metadata) or carries an empty one.
C9_ListingEndsWithinBound ==
    WellFormedListing(slack.pages) =>
        /\ Len(RequestsTo(requests, "conversations.members")) <= Len(slack.pages) + 1
        /\ pc = "members" =>
              Len(RequestsTo(requests, "conversations.members")) < Len(slack.pages) + 1

\* a listing of several pages, the last with an empty-string cursor, was read to its end
C9_Witness ==
    /\ pc = "invite"
    /\ WellFormedListing(slack.pages)
    /\ Len(slack.pages) >= 2
    /\ slack.pages[Len(slack.pages)].response_metadata = Metadata("")
    /\ Len(RequestsTo(requests, "conversations.members")) = Len(slack.pages)

\* the first five failing checks that have an image, in the order of the sequence
FirstFiveWithImage ==
    SelectSeq(SubSeq(service.failing_checks, 1, Min(5, Len(service.failing_checks))),
              LAMBDA c : c.image # None)

\* C10: uploads are attempted for at most 5 failing checks, only for checks among the
\* first 5 that have an image, in their order, each threaded to the ts the post returned.
C10_UploadsAreTheFirstFiveInOrder ==
    /\ Len(Uploads) <= 5
    /\ Len(Uploads) <= Len(FirstFiveWithImage)
    /\ \A n \in 1..Len(Uploads) :
        /\ Uploads[n].filename = <<FirstFiveWithImage[n].name, ".png">>
        /\ Posts # <<>>
        /\ CheckResponse(Posts[1].response) = NoException
        /\ Uploads[n].thread_ts = Posts[1].response.ts

\* more than five failing checks, not all with an image: the dispatch uploaded the images
\* of the first five only, threaded to the second timestamp
C10_Witness ==
    /\ pc = "done"
    /\ Len(service.failing_checks) > 5
    /\ service.failing_checks[1 + 1].image = None
    /\ service.failing_checks[Len(service.failing_checks)].image # None
    /\ Len(Uploads) = Len(FirstFiveWithImage)
    /\ Len(Uploads) >= 3
    /\ Uploads[1].thread_ts = "T2"

\* the block types of the message the dispatch posted
PostedBlockTypes == {Posts[1].blocks[b].type : b \in 1..Len(Posts[1].blocks)}

\* C11: in every dispatch whose policy result is send-without-mentions (ERROR->ACKED for
\* one) the posted message has neither the mention context block nor the missing-users
\* context block, whatever the recipients resolve to.
C11_SilentMessageHasNoContextBlock ==
    (TableDecision(old_status, current_status) = "SEND_SILENT" /\ Posts # <<>>) =>
        /\ Len(Posts) = 1
        /\ "context" \notin PostedBlockTypes
        /\ \A b \in 1..Len(Posts[1].blocks) :
              /\ Posts[1].blocks[b].mentions = <<>>
              /\ Posts[1].blocks[b].missing = <<>>

\* ERROR->ACKED with one recipient resolved and another one not found: the message went
\* out without a context block
C11_Witness ==
    /\ pc = "done"
    /\ old_status = "ERROR" /\ current_status = "ACKED"
    /\ user_ids # <<>>
    /\ missing_users # <<>>
    /\ Posts # <<>>
    /\ "context" \notin PostedBlockTypes

\* a dispatch of PASSING->WARNING for a service without failing checks
WarningWithoutChecks ==
    /\ dispatches > 0
    /\ old_status = "PASSING" /\ current_status = "WARNING"
    /\ service.failing_checks = <<>>

\* the posted message is the header block alone
HeaderOnly ==
    /\ Len(Posts) = 1
    /\ Len(Posts[1].blocks) = 1
    /\ Posts[1].blocks[1].type = "header"
    /\ Posts[1].blocks[1].status = "WARNING"

RecipientsInOrder == users \o duty_officers
\* the non-empty override values of a recipient, in record order
NonEmptyOverrides(user) == SelectSeq(user_data[user], LAMBDA v : v # "" /\ v # None)
HasOverride(user) == NonEmptyOverrides(user) # <<>>
\* the recipient has no override and the chat platform does not return an account
Unresolved(user) == ~HasOverride(user) /\ CheckResponse(slack.lookup[user]) # NoException
\* the chat ID of a recipient that is not unresolved
ChatIdOf(user) ==
    IF HasOverride(user) THEN NonEmptyOverrides(user)[1] ELSE slack.lookup[user].id
\* the chat IDs to mention, in recipient order, without the ignore sentinel
ExpectedMentions(recipients) ==
    SelectSeq([n \in 1..Len(recipients) |-> ChatIdOf(recipients[n])], LAMBDA v : v # "ignore")

\* C13: in a send-with-mentions dispatch in which at least one recipient resolves to a
\* non-ignored chat ID and none is unresolved, the posted block list is, in this order,
\* the header block, one section block per failing check in input order, then exactly
\* one context block mentioning every resolved chat ID in recipient order (users first,
\* then duty officers) followed by the pointing glyph.
C13_BlocksOfAMentioningDispatch ==
    (/\ dispatches > 0
     /\ TableDecision(old_status, current_status) = "SEND_WITH_MENTIONS"
     /\ \A n \in 1..Len(RecipientsInOrder) : ~Unresolved(RecipientsInOrder[n])
     /\ ExpectedMentions(RecipientsInOrder) # <<>>
     /\ pc \in {"upload", "done"}
     /\ result.type # "RuntimeError") =>
        /\ Len(Posts) = 1
        /\ LET posted == Posts[1].blocks
               checks == service.failing_checks
           IN  /\ Len(posted) = Len(checks) + 2
               /\ posted[1].type = "header"
               /\ posted[1].status = current_status
               /\ posted[1].emoji = EMOJIS(current_status)
               /\ \A n \in 1..Len(checks) :
                     /\ posted[n + 1].type = "section"
                     /\ posted[n + 1].check = checks[n].name
               /\ posted[Len(posted)].type = "context"
               /\ posted[Len(posted)].mentions = ExpectedMentions(RecipientsInOrder)
               /\ posted[Len(posted)].point_up
               /\ posted[Len(posted)].missing = <<>>

\* PASSING->ERROR with several failing checks, a user with override U123 and a duty
\* officer found by email: the last block mentions U123, then the duty officer
C13_Witness ==
    /\ pc = "done" /\ result = NoException
    /\ old_status = "PASSING" /\ current_status = "ERROR"
    /\ Len(service.failing_checks) >= 2
    /\ users = <<"alice">> /\ duty_officers = <<"bob">>
    /\ Posts # <<>>
    /\ Posts[1].blocks[Len(Posts[1].blocks)].mentions = <<"U123", "UBOB">>
    /\ Posts[1].blocks[1 + 1].check = service.failing_checks[1].name

\* the entered value is within max_length and starts with U or W
StartsWithUOrW(value) ==
    /\ value # <<>>
    /\ Len(value) <= 50
    /\ value[1] \in {"U", "W"}

\* C14: the ignore sentinel ('ignore') is an accepted value of a user's chat-ID
\* override: the validation of the override field accepts it, as it accepts IDs that
\* start with U or W.
C14_IgnoreSentinelIsAccepted ==
    form.state = "cleaned" =>
        /\ StartsWithUOrW(form.slack_user_id_override) => form.errors = {}
        /\ form.slack_user_id_override = <<"i", "g", "n", "o", "r", "e">> => form.errors = {}

\* the chat instance of the service
Instance == service.slack_instance[1]

\* the string of the server URL with 'api/' appended, after a '/' where the server URL
\* does not end in one
WithApiAppended(server_url) ==
    LET base == urlunsplit(server_url)
    IN  base \o (IF base[Len(base)] = "/" THEN <<>> ELSE <<"/">>) \o <<"api", "/">>

\* the dispatch got its target from _get_slack_api_for_service
Targeted == dispatches > 0 /\ api # NoApi

\* the channel and the auth header of C15
ChannelAndHeaderAsConfigured ==
    /\ api.channel_id = IF service.slack_channel_id \notin {None, ""}
                        THEN service.slack_channel_id
                        ELSE Instance.default_channel_id
    /\ api.headers = <<"Authorization", "Bearer ", Instance.access_token>>

\* C15: the channel a dispatch targets is the service's own channel ID when one is set
\* and the chat instance's default channel ID otherwise; the API base URL is the
\* instance's server URL with 'api/' appended and the auth header is 'Bearer ' followed
\* by the instance's access token.
C15_TargetOfADispatch ==
    Targeted =>
        /\ ChannelAndHeaderAsConfigured
        /\ urlunsplit(api.url) = WithApiAppended(Instance.server_url)

\* the conversations.join request of the dispatch failed
JoinFailed ==
    \E n \in 1..Len(requests) :
        requests[n].endpoint = "conversations.join" /\ Raised(n) # NoException

\* C16: a failure of the channel join call, a transport error or an API error of any
\* type ('unsupported for channel type' included), never aborts the dispatch:
\* recipients are still resolved and the message is still posted.
C16_JoinFailureBlocksNothing ==
    JoinFailed =>
        /\ pc # "done" => result = NoException
        /\ pc = "done" => EveryRecipientResolved /\ Posts # <<>>

\* the requests of the membership reconciliation that failed
FailedReconciliation ==
    {n \in 1..Len(requests) :
        /\ requests[n].endpoint \in {"conversations.members", "conversations.invite"}
        /\ Raised(n) # NoException}

\* C17: a transport or API failure of any request of the membership reconciliation (any
\* page of the membership listing, or the invite call) never prevents the message from
\* being posted in the same dispatch.
C17_ReconciliationFailureBlocksNoPost ==
    FailedReconciliation # {} =>
        /\ LogRecord("exception", "Failed to add users to channel") \in SeqToSet(logged)
        /\ \/ pc = "post" /\ result = NoException
           \/ Len(Posts) = 1 /\ Posts[1].channel = api.channel_id
        /\ \A n \in FailedReconciliation :
              \A k \in (n + 1)..Len(requests) :
                  requests[k].endpoint \in {"chat.postMessage", "files.upload"}

\* the second page of the listing failed with HTTP 500: no invite, and the message was
\* posted
C17_Witness ==
    /\ pc = "done" /\ result = NoException
    /\ \E n \in FailedReconciliation :
          /\ requests[n].endpoint = "conversations.members"
          /\ requests[n].cursor = CursorOf(1 + 1)
          /\ Raised(n) = HTTPError
    /\ Invites = {}
    /\ Len(Posts) = 1
    /\ CheckResponse(Posts[1].response) = NoException

\* the files.upload requests of the dispatch that failed
FailedUploads == {n \in 1..Len(Uploads) : CheckResponse(Uploads[n].response) # NoException}

\* C18: a transport or API failure of an image upload is logged and swallowed:
\* send_alert returns normally to its caller, and the message already posted in that
\* dispatch stays posted.
C18_UploadFailureIsSwallowed ==
    FailedUploads # {} =>
        /\ pc = "done"
        /\ result = NoException
        /\ LogRecord("exception", "Failed to get/upload images") \in SeqToSet(logged)
        /\ Len(Posts) = 1
        /\ CheckResponse(Posts[1].response) = NoException
        /\ ts = Posts[1].response.ts

\* the first image was uploaded, the second upload got an API error: send_alert
\* returned normally
C18_Witness ==
    /\ pc = "done" /\ result = NoException
    /\ FailedUploads = {1 + 1}
    /\ CheckResponse(Uploads[1 + 1].response) = SlackAPIError("fatal_error")
    /\ Len(Posts) = 1

\* the first non-empty override of the recipient is the ignore sentinel
Ignored(user) == HasOverride(user) /\ NonEmptyOverrides(user)[1] = "ignore"

\* C19: a recipient whose override equals the ignore sentinel is never passed to the
\* membership reconciliation (never invited), never appears in the mention block and
\* never appears in the missing-users block, in any dispatch.
C19_IgnoredRecipientIsLeftOut ==
    /\ "ignore" \notin SeqToSet(user_ids)
    /\ \A n \in 1..Len(missing_users) : ~Ignored(missing_users[n])
    /\ \A n \in Lookups : ~Ignored(requests[n].email)
    /\ \A n \in Invites : "ignore" \notin SeqToSet(requests[n].users)
    /\ \A n \in 1..Len(Posts) : \A b \in 1..Len(Posts[n].blocks) :
          /\ "ignore" \notin SeqToSet(Posts[n].blocks[b].mentions)
          /\ \A k \in 1..Len(Posts[n].blocks[b].missing) :
                ~Ignored(Posts[n].blocks[b].missing[k])
    /\ (pc \in {"members", "invite"} \/ Invites # {}) =>
          \E n \in 1..Len(all_users) : ~Ignored(all_users[n])

\* one recipient is ignored and one has a chat ID: the dispatch invited and mentioned
\* the second only
C19_Witness ==
    /\ pc = "done" /\ result = NoException
    /\ include_mentions
    /\ \E n \in 1..Len(all_users) : Ignored(all_users[n])
    /\ \E n \in Invites : requests[n].users = user_ids /\ Len(user_ids) = 1
    /\ Len(Posts) = 1
    /\ "context" \in PostedBlockTypes
    /\ Len(Posts[1].blocks[Len(Posts[1].blocks)].mentions) = 1

\* the recipients the `for user in users` loop has dealt with
Processed == SubSeq(all_users, 1, next_user - 1)
\* the emails looked up so far, in request order
LookedUp == [n \in 1..Len(RequestsTo(requests, "users.lookupByEmail")) |->
                RequestsTo(requests, "users.lookupByEmail")[n].email]

\* C20: for a recipient that has a non-empty chat-ID override, resolution returns that
\* override unchanged and issues no email-lookup request; of several override records
\* the first non-empty one is returned; the email lookup is issued only when no
\* override record has a non-empty value.
C20_OverrideBeforeLookup ==
    dispatches > 0 =>
        /\ \A n \in 1..Len(LookedUp) : ~HasOverride(LookedUp[n])
        /\ user_ids = ExpectedMentions(SelectSeq(Processed, LAMBDA u : ~Unresolved(u)))
        /\ (pc \notin {"join", "lookup"} /\ EveryRecipientResolved /\ api # NoApi) =>
              LookedUp = SelectSeq(all_users, LAMBDA u : ~HasOverride(u))

\* a user with the override records '', 'W777', 'U123' and a duty officer without any:
\* the dispatch took W777 and looked up the duty officer only
C20_Witness ==
    /\ pc = "done" /\ result = NoException
    /\ users = <<"alice">> /\ duty_officers = <<"bob">>
    /\ user_data["alice"] = <<"", "W777", "U123">>
    /\ user_ids = <<"W777", "UBOB">>
    /\ LookedUp = <<"bob">>

\* the place of an endpoint in the order of send_alert
Phase(endpoint) ==
    CASE endpoint = "conversations.join" -> 1
      [] endpoint = "users.lookupByEmail" -> 2
      [] endpoint = "conversations.members" -> 3
      [] endpoint = "conversations.invite" -> 4
      [] endpoint = "chat.postMessage" -> 5
      [] endpoint = "files.upload" -> 6

\* the recipients that have no override, in recipient order: users, then duty officers
ToLookUp == SelectSeq(RecipientsInOrder, LAMBDA u : ~HasOverride(u))

\* the dispatch went on after the policy and the configuration
Proceeded == dispatches > 0 /\ api # NoApi

\* C21: in every non-suppressed dispatch the chat API operations happen in one fixed
\* order: the join attempt first, then the recipient lookups one at a time in recipient
\* order (users, then duty officers), then the membership listing and invite, then
\* exactly one message post, then the image uploads; no lookup precedes the join
\* attempt, no post precedes the membership reconciliation attempt, no upload precedes
\* a successful post, and the message is posted at most once (no retry).
C21_OperationsInFixedOrder ==
    /\ (Proceeded /\ pc # "join") =>
          /\ requests # <<>>
          /\ requests[1].endpoint = "conversations.join"
    /\ Len(RequestsTo(requests, "conversations.join")) <= 1
    /\ \A n \in 1..Len(requests) : \A k \in (n + 1)..Len(requests) :
          Phase(requests[n].endpoint) <= Phase(requests[k].endpoint)
    /\ Len(LookedUp) <= Len(ToLookUp)
    /\ LookedUp = SubSeq(ToLookUp, 1, Len(LookedUp))
    /\ Cardinality(Invites) <= 1
    /\ Len(Posts) <= 1
    /\ Posts # <<>> =>
          /\ EveryRecipientResolved
          /\ LookedUp = ToLookUp
          /\ user_ids # <<>> => RequestsTo(requests, "conversations.members") # <<>>
    /\ Uploads # <<>> => Posts # <<>> /\ CheckResponse(Posts[1].response) = NoException
    /\ (Proceeded /\ EveryRecipientResolved /\ pc \in {"upload", "done"}) => Len(Posts) = 1

\* a dispatch made every kind of request: the join, a lookup, two pages of the listing,
\* the invite, the post and an upload
C21_Witness ==
    /\ pc = "done" /\ result = NoException
    /\ {requests[n].endpoint : n \in 1..Len(requests)} =
          {"conversations.join", "users.lookupByEmail", "conversations.members",
           "conversations.invite", "chat.postMessage", "files.upload"}
    /\ Len(RequestsTo(requests, "conversations.members")) >= 2
    /\ Len(Posts) = 1

\* C22: the paginated membership listing terminates for every possible sequence of
\* server responses, including adversarial or buggy pagination metadata such as a
\* server that returns the same non-empty cursor on every page.
C22_ListingTerminates == (pc = "members") ~> (pc # "members")

\* C23: when the upload for one failing check fails with a transport or API error, no
\* upload is attempted for any later failing check in the same dispatch, even if that
\* check has a diagnostic image and is among the first 5.
C23_NoUploadAfterAFailedUpload ==
    \A n \in FailedUploads :
        /\ n = Len(Uploads)
        /\ requests[Len(requests)] = Uploads[n]
        /\ pc = "done"

\* the first upload failed with HTTP 500 and the dispatch ended, although two more of
\* the first five failing checks had an image
C23_Witness ==
    /\ pc = "done"
    /\ FailedUploads = {1}
    /\ CheckResponse(Uploads[1].response) = HTTPError
    /\ Len(Uploads) = 1
    /\ Len(FirstFiveWithImage) >= 3

====
